---- MODULE Spec2Model ----
(***************************************************************************)
(* Model of src/main.py: the "Universal Downloader" HTTP service.          *)
(*                                                                         *)
(* Three specifications are defined over the same variables:               *)
(*   SpecClassify  detect_platform applied to every bounded URL;           *)
(*   Spec          one server thread serving the four endpoints that use   *)
(*                 the extraction library, step by step;                   *)
(*   SpecConc      several threads inside download_and_stream at once.     *)
(*                                                                         *)
(* A URL is a sequence of text chunks; the URL it stands for is the        *)
(* concatenation of the chunks, and Python's `needle in url` is the search *)
(* for a contiguous run of chunks.  The chunks are cut so that every       *)
(* occurrence of a needle falls on chunk boundaries.                       *)
(*                                                                         *)
(* The extraction library (yt_dlp.YoutubeDL) and the cookie files are the  *)
(* environment: each library call returns or raises, and leaves, fills or  *)
(* removes the file at its output template; each handler sees the one      *)
(* cookie file it consults in one of four conditions.                      *)
(***************************************************************************)
EXTENDS Naturals, Sequences, FiniteSets, TLC

VARIABLES
    proc,      \* per request thread: position and locals of the handler
    fs,        \* the scratch directory: path -> "absent" | "empty" | "media"
    issued,    \* names the tempfile module has already handed out
    cls        \* SpecClassify: the URL given to detect_platform and its result

vars == <<proc, fs, issued, cls>>

(***************************************************************************)
(* Bounds                                                                  *)
(***************************************************************************)
MaxUrlLen == 4
MaxPaths == 2
MaxRequests == 2

None == "None"

(***************************************************************************)
(* detect_platform (src/main.py 64-76)                                     *)
(***************************************************************************)
Platforms == {"youtube", "tiktok", "instagram", "twitter", "generic"}

\* str.lower() on one chunk: the mixed-case chunks and their lower-case form.
LowerChunk(c) ==
    CASE c = "YouTube" -> "youtube"
      [] c = "TikTok" -> "tiktok"
      [] OTHER -> c

\* url.lower()
Lower(url) == [i \in 1..Len(url) |-> LowerChunk(url[i])]

\* needle in s
Contains(needle, s) ==
    \E i \in 0..(Len(s) - Len(needle)) :
        \A j \in 1..Len(needle) : s[i + j] = needle[j]

YOUTUBE_COM == <<"youtube", ".com">>
YOUTU_BE == <<"youtu", ".be">>
TIKTOK_COM == <<"tiktok", ".com">>
INSTAGRAM_COM == <<"instagram", ".com">>
INSTAGR_AM == <<"instagr", ".am">>
TWITTER_COM == <<"twitter", ".com">>
X_COM == <<"x", ".com">>

\* Faulty variant: the tiktok test comes before the youtube test.
detect_platform_tiktok_first(url) ==
    LET url_lower == Lower(url) IN
    IF Contains(TIKTOK_COM, url_lower) THEN "tiktok"
    ELSE IF Contains(YOUTUBE_COM, url_lower) \/ Contains(YOUTU_BE, url_lower)
        THEN "youtube"
    ELSE IF Contains(INSTAGRAM_COM, url_lower) \/ Contains(INSTAGR_AM, url_lower)
        THEN "instagram"
    ELSE IF Contains(TWITTER_COM, url_lower) \/ Contains(X_COM, url_lower)
        THEN "twitter"
    ELSE "generic"

detect_platform(url) ==
    LET url_lower == Lower(url) IN
    IF Contains(YOUTUBE_COM, url_lower) \/ Contains(YOUTU_BE, url_lower)
        THEN "youtube"
    ELSE IF Contains(TIKTOK_COM, url_lower) THEN "tiktok"
    ELSE IF Contains(INSTAGRAM_COM, url_lower) \/ Contains(INSTAGR_AM, url_lower)
        THEN "instagram"
    ELSE IF Contains(TWITTER_COM, url_lower) \/ Contains(X_COM, url_lower)
        THEN "twitter"
    ELSE "generic"

\* The chunks the bounded URLs of SpecClassify are built from.
ClassifyChunks ==
    {"youtube", "YouTube", "youtu", "tiktok", "instagram", "instagr",
     "twitter", "x", "netfli", ".com", ".be", ".am"}

ClassifyUrls == UNION {[1..n -> ClassifyChunks] : n \in 0..MaxUrlLen}


(***************************************************************************)
(* Static tables and the cookie check (src/main.py 29-35, 78-88)           *)
(***************************************************************************)
COOKIE_FILES ==
    [p \in Platforms |->
        CASE p = "youtube" -> "cookies/youtube_cookies.txt"
          [] p = "tiktok" -> "cookies/tiktok.txt"
          [] p = "instagram" -> "cookies/instagram.txt"
          [] p = "twitter" -> "cookies/twitter.txt"
          [] OTHER -> "cookies/cookies.txt"]

\* COOKIE_FILES.get(platform)
CookieFileOf(platform) ==
    IF platform \in DOMAIN COOKIE_FILES THEN COOKIE_FILES[platform] ELSE None

\* What the handler finds at the cookie path it consults.
CookieStates == {"absent", "empty", "unreadable", "valid"}

\* An exception in flight, or none (status 0).
NoExc == [status |-> 0, detail |-> <<>>]
HTTPException(status_code, detail) == [status |-> status_code, detail |-> detail]

\* ck is the condition of the file at cookie_path.
ensure_cookie(ck, platform) ==
    IF ck = "absent" THEN HTTPException(401, <<"Cookie ausente", platform>>)
    ELSE IF ck = "empty" THEN HTTPException(401, <<"Cookie vazio", platform>>)
    ELSE IF ck = "unreadable" THEN HTTPException(401, <<"Cookie ilegivel", platform>>)
    ELSE NoExc

(***************************************************************************)
(* build_base_opts (src/main.py 90-165).  Options are a mapping from       *)
(* option name to value; the ones kept are those the handlers or the       *)
(* model of the library read.                                              *)
(***************************************************************************)
YOUTUBE_FORMAT ==
    "bv*[ext=mp4]+ba[ext=m4a]/bv*+ba/bestvideo[ext=mp4]+bestaudio[ext=m4a]/bestvideo+bestaudio/best"

ID_TEMPLATE == "%(id)s.%(ext)s"
TITLE_TEMPLATE == "%(title)s.%(ext)s"

\* custom_opts = None
NoCustom == <<>>

\* Returns the options, or the exception ensure_cookie raised on the way.
build_base_opts(platform, outtmpl, custom_opts, ck) ==
    LET cookie_file == CookieFileOf(platform)
        checked == cookie_file # None /\ ck # "absent"
        exc == IF checked THEN ensure_cookie(ck, platform) ELSE NoExc
        base == [outtmpl |-> outtmpl, format |-> "best"]
        withCookie == IF checked THEN [cookiefile |-> cookie_file] @@ base ELSE base
        common == [extractaudio |-> FALSE, audioformat |-> "mp3",
                   merge_output_format |-> "mp4"] @@ withCookie
        perPlatform == IF platform = "youtube"
                       THEN [format |-> YOUTUBE_FORMAT] @@ common
                       ELSE common
    IN [exc |-> exc, opts |-> custom_opts @@ perPlatform]

(***************************************************************************)
(* The extraction library.  One call returns ("ok") or raises, and has an  *)
(* effect on the file at the output template.                              *)
(***************************************************************************)
Retryable == {"DownloadError", "UnsupportedError"}

LibOutcomes ==
    [res : {"ok"}, msg : {""}, eff : {"write", "none", "remove"}]
    \cup [res : {"DownloadError"}, msg : {"format not available", "sign in"},
          eff : {"none", "remove"}]
    \cup [res : {"UnsupportedError"}, msg : {"unsupported url"}, eff : {"none"}]
    \cup [res : {"OSError"}, msg : {"disk full"}, eff : {"none"}]

\* The outcomes the concurrent specification draws from.
ConcOutcomes ==
    {o \in LibOutcomes :
        \/ (o.res = "ok" /\ o.eff # "none")
        \/ (o.res = "DownloadError" /\ o.msg = "sign in")}

\* A call that only lists or extracts metadata writes nothing.
MetaOutcomes == {o \in LibOutcomes : o.eff = "none"}

(***************************************************************************)
(* The scratch directory and tempfile.NamedTemporaryFile                   *)
(***************************************************************************)
PathNames ==
    <<"/tmp/tmpa.mp4", "/tmp/tmpb.mp4", "/tmp/tmpc.mp4", "/tmp/tmpd.mp4",
      "/tmp/tmpe.mp4", "/tmp/tmpf.mp4">>

Paths == {PathNames[i] : i \in 1..MaxPaths}

\* Faulty variant: a predictable name, whatever is on disk.
NamedTemporaryFile_fixed_name(files, given) == {PathNames[1]}

\* The names NamedTemporaryFile may return: a random name that names no
\* existing file (O_EXCL) and, being random, has not been handed out before.
NamedTemporaryFile(files, given) ==
    {p \in Paths : files[p] = "absent" /\ p \notin given}


(***************************************************************************)
(* Requests                                                                *)
(***************************************************************************)
\* str.strip(): leading and trailing blanks removed.
RECURSIVE LStrip(_)
LStrip(u) == IF u # <<>> /\ Head(u) = " " THEN LStrip(Tail(u)) ELSE u

RECURSIVE RStrip(_)
RStrip(u) ==
    IF u # <<>> /\ u[Len(u)] = " " THEN RStrip(SubSeq(u, 1, Len(u) - 1)) ELSE u

Strip(u) == RStrip(LStrip(u))

SampleUrls ==
    { <<>>,
      <<" ">>,
      <<"https://", "youtu", ".be", "/abc">>,
      <<"=", " ", "https://", "www.", "YouTube", ".com", "/watch">>,
      <<"https://", "www.", "tiktok", ".com", "/@user/video/123">>,
      <<"https://", "www.", "instagram", ".com", "/p/1">>,
      <<"https://", "x", ".com", "/u/status/1">>,
      <<"https://", "example", ".com", "/video">> }

\* DownloadRequest (src/main.py 215-229): the fields the handler branches on.
\* output_template keeps its default; the remaining fields are copied into
\* the options and read by the library alone.
DownloadRequests ==
    [url : SampleUrls,
     format_selector : {None, "worst"},
     extract_audio : BOOLEAN,
     audio_format : {"mp3", "m4a"},
     list_formats : BOOLEAN,
     output_template : {TITLE_TEMPLATE}]

\* The query parameters of /info and /list-formats.
QueryRequests == [url : SampleUrls, platform : {None} \cup Platforms \cup {"vimeo"}]

format_candidates ==
    << YOUTUBE_FORMAT,
       "bv*+ba/bestvideo+bestaudio/best",
       "bestvideo+bestaudio/best",
       "best" >>

Reqs == 1..MaxRequests

\* The server thread of Spec.
Main == 1

NoResp == [status |-> 0, detail |-> <<>>, mime |-> None, data |-> None]

IdleProc ==
    [pc |-> "idle", endpoint |-> None, url |-> <<>>, platform |-> None,
     cookie |-> None, extract_audio |-> FALSE, audio_format |-> None,
     opts |-> <<>>, ydl |-> <<>>, temp_path |-> None, i |-> 0,
     last_error |-> None, calls |-> <<>>, data |-> None, mime |-> None,
     exc |-> NoExc, unlinked |-> FALSE, resp |-> NoResp]

\* The handler raised exc: FastAPI turns it into the error response.
Raised(p, exc) ==
    [p EXCEPT !.pc = "done",
              !.resp = [status |-> exc.status, detail |-> exc.detail,
                        mime |-> None, data |-> None]]

\* The handler returned a JSON body.
Returned(p, body) ==
    [p EXCEPT !.pc = "done",
              !.resp = [status |-> 200, detail |-> body,
                        mime |-> "application/json", data |-> None]]

\* One library call as the handler's log sees it: the format in effect in
\* the YoutubeDL object, the candidate the caller meant, and the outcome.
Call(ydl, candidate, o) ==
    [fmt |-> ydl.format, candidate |-> candidate, res |-> o.res, msg |-> o.msg]

\* YoutubeDL(opts): the object keeps the options it was constructed with.
YoutubeDL(opts) == [format |-> opts.format, outtmpl |-> opts.outtmpl]


(***************************************************************************)
(* download_and_stream (src/main.py 167-213), one operator per stretch of  *)
(* code between two library calls.  p is the thread's record.              *)
(***************************************************************************)
\* except Exception as e: raise HTTPException(500, f"Erro ao baixar: {e}")
Caught(p, msg) ==
    [p EXCEPT !.pc = "finally",
              !.exc = HTTPException(500, <<"Erro ao baixar: ", msg>>)]

\* Lines 169-183: the scratch file is created at path, the options are
\* pointed at it, the YoutubeDL object is built and the loop is set up.
enter_stream(p, path) ==
    LET opts == [outtmpl |-> path] @@ p.opts
    IN [p EXCEPT !.temp_path = path,
                 !.opts = opts,
                 !.ydl = YoutubeDL(opts),
                 !.i = IF detect_platform(p.url) = "youtube" THEN 1 ELSE 0,
                 !.last_error = None,
                 !.pc = "download"]

\* Faulty variant: the first error is kept instead of the last.
loop_step_keeps_first_error(p, o) ==
    LET youtube == detect_platform(p.url) = "youtube"
        candidate == IF youtube THEN format_candidates[p.i] ELSE None
        q == [p EXCEPT !.calls = Append(@, Call(p.ydl, candidate, o))]
    IN IF ~youtube
       THEN IF o.res = "ok" THEN [q EXCEPT !.pc = "read"] ELSE Caught(q, o.msg)
       ELSE IF o.res = "ok"
            THEN [q EXCEPT !.last_error = None, !.pc = "read"]
       ELSE IF o.res \in Retryable
            THEN LET e == IF q.last_error = None THEN o.msg ELSE q.last_error
                     q2 == [q EXCEPT !.last_error = e]
                 IN IF p.i < Len(format_candidates)
                    THEN [q2 EXCEPT !.i = p.i + 1]
                    ELSE Caught(q2, q2.last_error)
       ELSE Caught(q, o.msg)

\* Faulty variant: no break after a successful download.
loop_step_no_break(p, o) ==
    LET youtube == detect_platform(p.url) = "youtube"
        candidate == IF youtube THEN format_candidates[p.i] ELSE None
        q == [p EXCEPT !.calls = Append(@, Call(p.ydl, candidate, o))]
    IN IF ~youtube
       THEN IF o.res = "ok" THEN [q EXCEPT !.pc = "read"] ELSE Caught(q, o.msg)
       ELSE IF o.res = "ok"
            THEN IF p.i < Len(format_candidates)
                 THEN [q EXCEPT !.last_error = None, !.i = p.i + 1]
                 ELSE [q EXCEPT !.last_error = None, !.pc = "read"]
       ELSE IF o.res \in Retryable
            THEN LET q2 == [q EXCEPT !.last_error = o.msg]
                 IN IF p.i < Len(format_candidates)
                    THEN [q2 EXCEPT !.i = p.i + 1]
                    ELSE Caught(q2, q2.last_error)
       ELSE Caught(q, o.msg)

\* Lines 184-198: one ydl.download([url]) with outcome o, and what the code
\* does with it.  In the youtube loop temp_opts receives the candidate, and
\* the call goes through ydl, built from opts.
loop_step(p, o) ==
    LET youtube == detect_platform(p.url) = "youtube"
        candidate == IF youtube THEN format_candidates[p.i] ELSE None
        q == [p EXCEPT !.calls = Append(@, Call(p.ydl, candidate, o))]
    IN IF ~youtube
       THEN IF o.res = "ok" THEN [q EXCEPT !.pc = "read"] ELSE Caught(q, o.msg)
       ELSE IF o.res = "ok"
            THEN [q EXCEPT !.last_error = None, !.pc = "read"]
       ELSE IF o.res \in Retryable
            THEN LET q2 == [q EXCEPT !.last_error = o.msg]
                 IN IF p.i < Len(format_candidates)
                    THEN [q2 EXCEPT !.i = p.i + 1]
                    ELSE Caught(q2, q2.last_error)
       ELSE Caught(q, o.msg)

\* What the library call does to the file at its output template.
LibEffect(files, ydl, o) ==
    IF o.eff = "write" THEN [files EXCEPT ![ydl.outtmpl] = "media"]
    ELSE IF o.eff = "remove" THEN [files EXCEPT ![ydl.outtmpl] = "absent"]
    ELSE files

\* Lines 200-210: read the file back, or fail.
read_result(p, files) ==
    IF files[p.temp_path] # "absent"
    THEN [p EXCEPT !.data = files[p.temp_path], !.mime = "video/mp4",
                   !.pc = "finally"]
    ELSE Caught(p, "500: Arquivo nao gerado apos download")

\* Faulty variant: the scratch file is removed on the success path only.
cleanup_on_success_only(p, files) ==
    IF files[p.temp_path] # "absent" /\ p.exc = NoExc
    THEN [files EXCEPT ![p.temp_path] = "absent"]
    ELSE files

\* Lines 211-213: finally.
cleanup(p, files) ==
    IF files[p.temp_path] # "absent"
    THEN [files EXCEPT ![p.temp_path] = "absent"]
    ELSE files

\* The caller's side of the call (lines 334-344): the exception propagates,
\* or the bytes are wrapped in a Response.
respond(p, files) ==
    LET q == [p EXCEPT !.unlinked = (cleanup(p, files) # files)]
    IN IF q.exc # NoExc
       THEN Raised(q, q.exc)
       ELSE [q EXCEPT !.pc = "done",
                      !.resp = [status |-> 200, detail |-> <<>>,
                                mime |-> q.mime, data |-> q.data]]


(***************************************************************************)
(* The endpoints (src/main.py 239-367).  ck is the condition of the cookie *)
(* file the handler consults, o the outcome of its library call.           *)
(***************************************************************************)
\* One metadata call (extract_info, or download in list mode) inside
\* try/except: the body on success, HTTP 500 with the prefix otherwise.
meta_call(p, opts, o, body, prefix) ==
    LET q == [p EXCEPT !.opts = opts,
                       !.ydl = YoutubeDL(opts),
                       !.calls = Append(@, Call(YoutubeDL(opts), None, o))]
    IN IF o.res = "ok"
       THEN Returned(q, body)
       ELSE Raised(q, HTTPException(500, <<prefix, o.msg>>))

\* POST /download up to the call of download_and_stream (lines 286-332).
download_video(p, req, ck, o) ==
    LET url0 == Strip(req.url)
        url == IF url0 # <<>> /\ Head(url0) = "=" THEN Strip(Tail(url0)) ELSE url0
        platform == detect_platform(url)
        cookie_file == CookieFileOf(platform)
        exc == IF cookie_file # None THEN ensure_cookie(ck, platform) ELSE NoExc
        custom_opts ==
            (IF req.format_selector # None
                THEN [format |-> req.format_selector] ELSE <<>>)
            @@ (IF req.extract_audio
                THEN [extractaudio |-> TRUE, audioformat |-> req.audio_format]
                ELSE <<>>)
            @@ [outtmpl |-> req.output_template]
        listing == build_base_opts(platform, ID_TEMPLATE,
                                   [listformats |-> TRUE] @@ custom_opts, ck)
        real == build_base_opts(platform, ID_TEMPLATE, custom_opts, ck)
        q0 == [p EXCEPT !.endpoint = "download", !.url = url0]
        q == [q0 EXCEPT !.url = url, !.platform = platform, !.cookie = ck,
                        !.extract_audio = req.extract_audio,
                        !.audio_format = req.audio_format]
    IN IF url0 = <<>> THEN Raised(q0, HTTPException(400, <<"URL e obrigatoria">>))
       ELSE IF exc # NoExc THEN Raised(q, exc)
       ELSE IF req.list_formats
            THEN IF listing.exc # NoExc THEN Raised(q, listing.exc)
                 ELSE meta_call(q, listing.opts, o,
                                <<"Formatos listados com sucesso.">>,
                                "Erro ao listar: ")
       ELSE IF real.exc # NoExc THEN Raised(q, real.exc)
       ELSE [q EXCEPT !.opts = real.opts, !.pc = "stream"]

\* GET /info (lines 239-268).
get_info(p, req, ck, o) ==
    LET detected_platform ==
            IF req.platform # None THEN req.platform ELSE detect_platform(req.url)
        cookie_file == CookieFileOf(detected_platform)
        exc == IF cookie_file # None THEN ensure_cookie(ck, detected_platform)
               ELSE NoExc
        built == build_base_opts(detected_platform, ID_TEMPLATE,
                                 [skip_download |-> TRUE, dump_single_json |-> TRUE],
                                 ck)
        q0 == [p EXCEPT !.endpoint = "info", !.url = req.url]
        q == [q0 EXCEPT !.platform = detected_platform, !.cookie = ck]
    IN IF req.url = <<>> THEN Raised(q0, HTTPException(400, <<"URL e obrigatoria">>))
       ELSE IF exc # NoExc THEN Raised(q, exc)
       ELSE IF built.exc # NoExc THEN Raised(q, built.exc)
       ELSE meta_call(q, built.opts, o, <<"info">>, "Erro ao obter info: ")

\* GET /list-formats (lines 270-281).
list_formats(p, req, ck, o) ==
    LET detected_platform ==
            IF req.platform # None THEN req.platform ELSE detect_platform(req.url)
        built == build_base_opts(detected_platform, ID_TEMPLATE,
                                 [listformats |-> TRUE], ck)
        q == [p EXCEPT !.endpoint = "list-formats", !.url = req.url,
                       !.platform = detected_platform, !.cookie = ck]
    IN IF built.exc # NoExc THEN Raised(q, built.exc)
       ELSE meta_call(q, built.opts, o,
                      <<"Formatos listados no log. Use /info para JSON.">>,
                      "Erro ao listar formatos: ")

\* GET /search (lines 346-367).
search_youtube(p, ck, o) ==
    LET built == build_base_opts("youtube", ID_TEMPLATE, [extract_flat |-> TRUE], ck)
        q == [p EXCEPT !.endpoint = "search", !.url = <<"ytsearch">>,
                       !.platform = "youtube", !.cookie = ck]
    IN IF built.exc # NoExc THEN Raised(q, built.exc)
       ELSE meta_call(q, built.opts, o, <<"entries">>, "Erro na busca: ")

(***************************************************************************)
(* Actions                                                                 *)
(***************************************************************************)
Idle(r) == proc[r].pc = "idle"

Handle(r, q) ==
    /\ proc' = [proc EXCEPT ![r] = q]
    /\ UNCHANGED <<fs, issued, cls>>

DownloadVideo(r) ==
    /\ Idle(r)
    /\ \E req \in DownloadRequests, ck \in CookieStates, o \in MetaOutcomes :
          Handle(r, download_video(proc[r], req, ck, o))

GetInfo(r) ==
    /\ Idle(r)
    /\ \E req \in QueryRequests, ck \in CookieStates, o \in MetaOutcomes :
          Handle(r, get_info(proc[r], req, ck, o))

ListFormats(r) ==
    /\ Idle(r)
    /\ \E req \in QueryRequests, ck \in CookieStates, o \in MetaOutcomes :
          Handle(r, list_formats(proc[r], req, ck, o))

SearchYoutube(r) ==
    /\ Idle(r)
    /\ \E ck \in CookieStates, o \in MetaOutcomes :
          Handle(r, search_youtube(proc[r], ck, o))

\* download_and_stream(url, opts) called with default options: the entry of
\* the concurrent specification.
ConcUrls ==
    { <<"https://", "youtu", ".be", "/abc">>,
      <<"https://", "example", ".com", "/video">> }

CallStream(r) ==
    /\ Idle(r)
    /\ \E url \in ConcUrls :
          LET platform == detect_platform(url)
              built == build_base_opts(platform, ID_TEMPLATE, NoCustom, "valid")
          IN Handle(r, [proc[r] EXCEPT !.endpoint = "download", !.url = url,
                                       !.platform = platform, !.cookie = "valid",
                                       !.opts = built.opts, !.pc = "stream"])

EnterStream(r) ==
    /\ proc[r].pc = "stream"
    /\ \E path \in NamedTemporaryFile(fs, issued) :
          /\ fs' = [fs EXCEPT ![path] = "empty"]
          /\ issued' = issued \cup {path}
          /\ proc' = [proc EXCEPT ![r] = enter_stream(proc[r], path)]
    /\ UNCHANGED cls

Attempt(r, outcomes) ==
    /\ proc[r].pc = "download"
    /\ \E o \in outcomes :
          /\ fs' = LibEffect(fs, proc[r].ydl, o)
          /\ proc' = [proc EXCEPT ![r] = loop_step(proc[r], o)]
    /\ UNCHANGED <<issued, cls>>

ReadResult(r) ==
    /\ proc[r].pc = "read"
    /\ proc' = [proc EXCEPT ![r] = read_result(proc[r], fs)]
    /\ UNCHANGED <<fs, issued, cls>>

Finally(r) ==
    /\ proc[r].pc = "finally"
    /\ fs' = cleanup(proc[r], fs)
    /\ proc' = [proc EXCEPT ![r] = respond(proc[r], fs)]
    /\ UNCHANGED <<issued, cls>>

\* The response is sent and the thread takes the next request.
Return(r) ==
    /\ proc[r].pc = "done"
    /\ proc' = [proc EXCEPT ![r] = IdleProc]
    /\ UNCHANGED <<fs, issued, cls>>

Classify ==
    /\ ~cls.done
    /\ cls' = [cls EXCEPT !.tag = detect_platform(cls.url), !.done = TRUE]
    /\ UNCHANGED <<proc, fs, issued>>

(***************************************************************************)
(* Specifications                                                          *)
(***************************************************************************)
Init ==
    /\ proc = [r \in Reqs |-> IdleProc]
    /\ fs = [p \in Paths |-> "absent"]
    /\ issued = {}
    /\ cls = [url |-> <<>>, tag |-> None, done |-> FALSE]

Next ==
    \/ DownloadVideo(Main)
    \/ GetInfo(Main)
    \/ ListFormats(Main)
    \/ SearchYoutube(Main)
    \/ EnterStream(Main)
    \/ Attempt(Main, LibOutcomes)
    \/ ReadResult(Main)
    \/ Finally(Main)
    \/ Return(Main)

Spec == Init /\ [][Next]_vars

NextConc ==
    \E r \in Reqs :
        \/ CallStream(r)
        \/ EnterStream(r)
        \/ Attempt(r, ConcOutcomes)
        \/ ReadResult(r)
        \/ Finally(r)
        \/ Return(r)

SpecConc == Init /\ [][NextConc]_vars

InitClassify ==
    /\ proc = [r \in Reqs |-> IdleProc]
    /\ fs = [p \in Paths |-> "absent"]
    /\ issued = {}
    /\ \E u \in ClassifyUrls : cls = [url |-> u, tag |-> None, done |-> FALSE]

NextClassify == Classify

SpecClassify == InitClassify /\ [][NextClassify]_vars


(***************************************************************************)
(* Properties                                                              *)
(***************************************************************************)
\* The thread went through download_and_stream for a youtube URL.
YoutubeStream(p) == p.platform = "youtube" /\ p.temp_path # None

AllFailed(p) == \A k \in 1..Len(p.calls) : p.calls[k].res \in Retryable

NoFileDetail == <<"Erro ao baixar: ", "500: Arquivo nao gerado apos download">>

\* C1: in the youtube fallback loop the download calls are made in
\* candidate order, at most one per candidate; every call before the last
\* one raised DownloadError/UnsupportedError; a call that succeeds is the
\* last one (k-1 failures and a success make k calls), it leaves no error
\* pending, and the request then ends without an error from the loop.
C1_FirstSuccessStopsLoop ==
    \A r \in Reqs :
        LET p == proc[r] IN
        YoutubeStream(p) =>
            /\ Len(p.calls) <= Len(format_candidates)
            /\ \A k \in 1..Len(p.calls) :
                  /\ p.calls[k].candidate = format_candidates[k]
                  /\ k < Len(p.calls) => p.calls[k].res \in Retryable
                  /\ p.calls[k].res = "ok" =>
                        /\ k = Len(p.calls)
                        /\ p.pc \in {"read", "finally", "done"}
                        /\ p.last_error = None
                        /\ p.pc = "done" =>
                              \/ p.resp.status = 200
                              \/ p.resp.detail = NoFileDetail

C1_Witness ==
    \E r \in Reqs :
        LET p == proc[r] IN
        /\ YoutubeStream(p)
        /\ p.pc = "done"
        /\ Len(p.calls) = 3
        /\ p.calls[1].res = "DownloadError"
        /\ p.calls[2].res = "UnsupportedError"
        /\ p.calls[3].res = "ok"
        /\ p.resp.status = 200

\* C2: when every candidate's attempt fails, one attempt per candidate was
\* made and the request ends in HTTP 500 carrying the message of the last
\* attempt's error.
C2_ExhaustedCarriesLastError ==
    \A r \in Reqs :
        LET p == proc[r] IN
        (YoutubeStream(p) /\ p.pc = "done" /\ AllFailed(p)) =>
            /\ Len(p.calls) = Len(format_candidates)
            /\ \A k \in 1..Len(p.calls) : p.calls[k].candidate = format_candidates[k]
            /\ p.resp.status = 500
            /\ p.resp.detail = <<"Erro ao baixar: ", p.calls[Len(p.calls)].msg>>

C2_Witness ==
    \E r \in Reqs :
        LET p == proc[r] IN
        /\ YoutubeStream(p) /\ p.pc = "done" /\ AllFailed(p)
        /\ Len(p.calls) = Len(format_candidates)
        /\ p.calls[1].msg # p.calls[Len(p.calls)].msg
        /\ p.resp.status = 500

\* C3: when download_and_stream has returned or raised, the scratch file
\* it created does not exist.
C3_ScratchRemovedOnExit ==
    \A r \in Reqs :
        (proc[r].pc = "done" /\ proc[r].temp_path # None) =>
            fs[proc[r].temp_path] = "absent"

C3_Witness ==
    \E r \in Reqs :
        /\ proc[r].pc = "done"
        /\ proc[r].temp_path # None
        /\ proc[r].resp.status = 500
        /\ proc[r].unlinked

CredentialPlatforms == {"youtube", "tiktok", "instagram", "twitter"}

\* C4: on the four endpoints that use the library, a credential-requiring
\* platform whose cookie file is absent, empty or unreadable gets HTTP 401
\* and no library call.
C4_RejectedBeforeLibrary ==
    \A r \in Reqs :
        LET p == proc[r] IN
        ( /\ p.pc = "done"
          /\ p.endpoint \in {"download", "info", "list-formats", "search"}
          /\ p.platform \in CredentialPlatforms
          /\ p.cookie \in {"absent", "empty", "unreadable"} ) =>
            (p.resp.status = 401 /\ p.calls = <<>>)

\* C5: a /download request for a generic URL is never answered 401, makes
\* exactly one library call, and a failure carries the library's message.
C5_GenericNeedsNoCredential ==
    \A r \in Reqs :
        LET p == proc[r] IN
        (p.pc = "done" /\ p.endpoint = "download" /\ p.platform = "generic") =>
            /\ p.resp.status # 401
            /\ Len(p.calls) = 1
            /\ p.calls[1].res # "ok" => p.resp.detail[2] = p.calls[1].msg

\* C6: a download never ends in a success response with empty content; a
\* library call that reported success and produced nothing gives HTTP 500.
C6_NoOutputIsAnError ==
    \A r \in Reqs :
        LET p == proc[r] IN
        (p.pc = "done" /\ p.temp_path # None /\ p.resp.status = 200) =>
            p.resp.data = "media"

\* C7: the MIME type of a successful download is audio/mpeg for an mp3
\* audio extraction and video/mp4 otherwise.
C7_MimeFollowsOutput ==
    \A r \in Reqs :
        LET p == proc[r] IN
        (p.pc = "done" /\ p.temp_path # None /\ p.resp.status = 200) =>
            p.resp.mime = IF p.extract_audio /\ p.audio_format = "mp3"
                          THEN "audio/mpeg" ELSE "video/mp4"

HasYoutube(u) == Contains(YOUTUBE_COM, u) \/ Contains(YOUTU_BE, u)
HasTiktok(u) == Contains(TIKTOK_COM, u)
HasInstagram(u) == Contains(INSTAGRAM_COM, u) \/ Contains(INSTAGR_AM, u)
HasTwitter(u) == Contains(TWITTER_COM, u) \/ Contains(X_COM, u)

\* C8 as stated: tiktok.com yields tiktok, youtube.com or youtu.be yields
\* youtube, instagram.com or instagr.am yields instagram, anything else
\* yields generic.
C8_AsStated ==
    cls.done =>
        LET u == cls.url IN
        /\ cls.tag \in Platforms
        /\ HasTiktok(u) => cls.tag = "tiktok"
        /\ HasYoutube(u) => cls.tag = "youtube"
        /\ HasInstagram(u) => cls.tag = "instagram"
        /\ ~(HasTiktok(u) \/ HasYoutube(u) \/ HasInstagram(u)) => cls.tag = "generic"

\* C8 amended: detect_platform is total and matches case-insensitively in
\* the priority order youtube, tiktok, instagram, twitter; a URL matching
\* none of them yields generic.
C8_PriorityClassification ==
    cls.done =>
        LET u == Lower(cls.url) IN
        /\ cls.tag \in Platforms
        /\ HasYoutube(u) => cls.tag = "youtube"
        /\ (~HasYoutube(u) /\ HasTiktok(u)) => cls.tag = "tiktok"
        /\ (~HasYoutube(u) /\ ~HasTiktok(u) /\ HasInstagram(u)) =>
              cls.tag = "instagram"
        /\ (~HasYoutube(u) /\ ~HasTiktok(u) /\ ~HasInstagram(u) /\ HasTwitter(u)) =>
              cls.tag = "twitter"
        /\ ~(HasYoutube(u) \/ HasTiktok(u) \/ HasInstagram(u) \/ HasTwitter(u)) =>
              cls.tag = "generic"

C8_Witness ==
    /\ cls.done
    /\ HasTiktok(cls.url)
    /\ Contains(<<"YouTube", ".com">>, cls.url)
    /\ cls.tag = "youtube"

\* C9: the k-th download call of the youtube loop runs with the k-th
\* candidate as the format of the YoutubeDL object that makes the call.
C9_CandidateInEffect ==
    \A r \in Reqs :
        LET p == proc[r] IN
        YoutubeStream(p) =>
            \A k \in 1..Len(p.calls) : p.calls[k].fmt = format_candidates[k]

InFlight(r) == proc[r].pc \in {"download", "read", "finally"}

C10_Separate ==
    /\ \A r, s \in Reqs :
          (r # s /\ InFlight(r) /\ InFlight(s)) =>
              proc[r].temp_path # proc[s].temp_path
    /\ (\A r \in Reqs : proc[r].pc \in {"idle", "done"}) =>
          \A p \in Paths : fs[p] = "absent"

C10_Untouched ==
    \A r \in Reqs :
        (InFlight(r) /\ proc'[r] = proc[r]) =>
            fs'[proc[r].temp_path] = fs[proc[r].temp_path]

====
